---------------------------- MODULE Spec2Model ----------------------------
(***************************************************************************)
(* A model of nlp4py/tagger.py (class ASPTagger): the word-shape and flag  *)
(* rules, the static feature extractor, the fold arithmetic of the         *)
(* cross-validation, the tagger's life cycle (train, tag, evaluate, save,  *)
(* load) and the pool of fold jobs of crossvalidate.                       *)
(*                                                                         *)
(* Strings of the program are sequences of one-character strings, so that  *)
(* lower(), slicing and the character classes are computed, not assumed.   *)
(* Python's 0-based indices are kept; PySlice and PyIndex translate them.  *)
(***************************************************************************)
EXTENDS Integers, Sequences, FiniteSets, TLC

VARIABLES
    word,          \* SpecShape: the argument of _word_shape
    shape,         \* SpecShape: [done, value] the returned shape
    staticIn,      \* SpecStatic: [called, words, lengths] of _get_static_features
    features,      \* SpecStatic: the returned list of per-token feature lists
    reads,         \* SpecStatic: per token, the positions of `tokens` it read
    corpusLengths, \* SpecFolds: `lengths` of the corpus given to crossvalidate
    foldSlices,    \* SpecFolds: fold index -> [done, test_ranges, test_lengths, train_lengths]
    tagger,        \* the ASPTagger instance (a record of its attributes)
    file,          \* the model file written by save / read by load
    generators,    \* tag() generators created and not yet started
    calls,         \* the learner invocations (fit/predict/score) of the last operation
    lastOp,        \* the last operation, its outcome and its result
    pool           \* crossvalidate's multiprocessing.Pool: chunks, workers, results

shapeVars  == <<word, shape>>
staticVars == <<staticIn, features, reads>>
foldVars   == <<corpusLengths, foldSlices>>
taggerVars == <<tagger, file, generators, calls, lastOp>>
cvVars     == <<pool>>
vars == <<word, shape, staticIn, features, reads, corpusLengths, foldSlices,
          tagger, file, generators, calls, lastOp, pool>>

---------------------------------------------------------------------------
(* Bounds of the model *)

MaxWordLen == 5        \* SpecShape: longest enumerated word
MaxTokens == 3         \* SpecStatic: most tokens in an input corpus
MaxSentences == 23     \* SpecFolds: most sentences in a corpus

(* Program constants *)

LongLimit == 100       \* _word_shape: len(word) >= 100 gives "LONG"
MaxSeq == 4            \* _word_shape: `if seq < 4`
AffixLen == 3          \* _get_static_features: w[:3], w[-3:]
NumFolds == 10         \* crossvalidate: divmod(len(sentence_ranges), 10), range(10)

---------------------------------------------------------------------------
(* Python helpers *)

Min(a, b) == IF a < b THEN a ELSE b
Max(a, b) == IF a > b THEN a ELSE b

\* s[lo:hi] for 0 <= lo, 0 <= hi (Python clamps both to len(s))
PySlice(s, lo, hi) ==
    LET l == Min(lo, Len(s))
        h == Min(hi, Len(s))
    IN  IF l >= h THEN <<>> ELSE SubSeq(s, l + 1, h)

\* s[-n:] for n > 0
PyLast(s, n) == SubSeq(s, Max(1, Len(s) - n + 1), Len(s))

\* s[k]; a negative k counts from the end
PyIndex(s, k) == IF k >= 0 THEN s[k + 1] ELSE s[Len(s) + k + 1]

\* whether s[k] raises IndexError
PyIndexRaises(s, k) == k >= Len(s) \/ k < 0 - Len(s)

RECURSIVE SumSeq(_)
SumSeq(s) == IF s = <<>> THEN 0 ELSE s[1] + SumSeq(Tail(s))

RECURSIVE Concat(_)
Concat(ss) == IF ss = <<>> THEN <<>> ELSE ss[1] \o Concat(Tail(ss))

SeqsUpTo(S, n) == UNION {[1..k -> S] : k \in 0..n}

Range(s) == {s[k] : k \in 1..Len(s)}

---------------------------------------------------------------------------
(* Characters: str.isalpha, str.isupper, str.isdigit, str.lower *)

Alphabet == {"A", "B", "a", "b", "1", "!"}

IsUpperChar(c) == c \in {"A", "B"}
IsLowerChar(c) == c \in {"a", "b"}
IsAlphaChar(c) == IsUpperChar(c) \/ IsLowerChar(c)
IsDigitChar(c) == c \in {"1"}
\* the characters of self.punctuation's class that are in Alphabet
IsPunctChar(c) == c \in {"!"}
\* \w of the regular expressions
IsWordChar(c) == IsAlphaChar(c) \/ IsDigitChar(c)

LowerChar(c) == IF c = "A" THEN "a" ELSE IF c = "B" THEN "b" ELSE c

\* w.lower()
Lower(w) == [k \in 1..Len(w) |-> LowerChar(w[k])]

\* [w.lower() for w in words]
LowerAll(ws) == [k \in 1..Len(ws) |-> Lower(ws[k])]

---------------------------------------------------------------------------
(* _word_shape *)

ShapeChar(c) ==
    IF IsAlphaChar(c)
    THEN (IF IsUpperChar(c) THEN "X" ELSE "x")
    ELSE IF IsDigitChar(c) THEN "d" ELSE c

\* a mutant of KeepShapeChar: the comparison off by one
KeepShapeCharOffByOne(seq) == seq <= MaxSeq

\* `if seq < 4: shape.append(shape_char)`
KeepShapeChar(seq) == seq < MaxSeq

\* one iteration of `for c in word`, on the loop's state [shape, last, seq]
ShapeStep(st, c) ==
    LET shape_char == ShapeChar(c)
        seq2 == IF shape_char = st.last THEN st.seq + 1 ELSE 0
    IN  [shape |-> IF KeepShapeChar(seq2) THEN Append(st.shape, shape_char)
                   ELSE st.shape,
         last  |-> shape_char,
         seq   |-> seq2]

\* the iterations for w[lo..hi] (1-based, lo <= hi) in order.  The range is
\* split in halves and the first half is evaluated before the second is
\* entered (the test on seq, always true, forces it), which keeps the
\* evaluation shallow for words of almost LongLimit characters.
RECURSIVE ShapeLoop(_, _, _, _)
ShapeLoop(w, lo, hi, st) ==
    IF lo = hi THEN ShapeStep(st, w[lo])
    ELSE LET mid == (lo + hi) \div 2
             half == ShapeLoop(w, lo, mid, st)
         IN  IF half.seq >= 0 THEN ShapeLoop(w, mid + 1, hi, half) ELSE half

LONG == <<"L", "O", "N", "G">>

WordShape(w) ==
    IF Len(w) >= LongLimit THEN LONG
    ELSE IF Len(w) = 0 THEN <<>>
    ELSE ShapeLoop(w, 1, Len(w), [shape |-> <<>>, last |-> "", seq |-> 0]).shape

---------------------------------------------------------------------------
(* _word_flags, over the words of Alphabet.  The patterns email, xmltag,   *)
(* url, mention, hashtag, action_word, emoticon, emoji and ordinal all     *)
(* need a character outside Alphabet (@ < . # * : ; 8 x D ^ ...), so they  *)
(* match no word of the model and their flags are never appended.          *)

StrIsAlpha(w) == Len(w) > 0 /\ \A k \in 1..Len(w) : IsAlphaChar(w[k])
StrIsNumeric(w) == Len(w) > 0 /\ \A k \in 1..Len(w) : IsDigitChar(w[k])
StrIsLower(w) ==
    /\ \E k \in 1..Len(w) : IsLowerChar(w[k])
    /\ \A k \in 1..Len(w) : ~IsUpperChar(w[k])
StrIsUpper(w) ==
    /\ \E k \in 1..Len(w) : IsUpperChar(w[k])
    /\ \A k \in 1..Len(w) : ~IsLowerChar(w[k])
\* uppercase only after an uncased character, lowercase only after a cased one
StrIsTitle(w) ==
    /\ \E k \in 1..Len(w) : IsUpperChar(w[k])
    /\ \A k \in 1..Len(w) :
          LET prevCased == k > 1 /\ IsAlphaChar(w[k - 1])
          IN  /\ IsUpperChar(w[k]) => ~prevCased
              /\ IsLowerChar(w[k]) => prevCased
\* self.punctuation: ^[...]+$
MatchesPunctuation(w) == Len(w) > 0 /\ \A k \in 1..Len(w) : IsPunctChar(w[k])
\* self.number.search: digits not preceded by a word character
MatchesNumber(w) ==
    \E k \in 1..Len(w) : IsDigitChar(w[k]) /\ (k = 1 \/ ~IsWordChar(w[k - 1]))

\* the feature string "<pos>_<name>: <value>" ("bias" has no pos and no value)
Feat(pos, name, value) == [pos |-> pos, name |-> name, value |-> value]

FlagIf(cond, prefix, flag) ==
    IF cond THEN <<Feat(prefix, flag, <<>>)>> ELSE <<>>

WordFlags(w, prefix) ==
    FlagIf(StrIsAlpha(w), prefix, "isalpha")
    \o FlagIf(StrIsNumeric(w), prefix, "isnumeric")
    \o FlagIf(StrIsLower(w), prefix, "islower")
    \o FlagIf(StrIsUpper(w), prefix, "isupper")
    \o FlagIf(StrIsTitle(w), prefix, "istitle")
    \o FlagIf(MatchesPunctuation(w), prefix, "ispunct")
    \o FlagIf(MatchesNumber(w), prefix, "isnumber")

---------------------------------------------------------------------------
(* The tagger instance: ASPTagger.__init__ *)

\* an optional table (None, or a dict)
None == [present |-> FALSE, table |-> <<>>]
Some(t) == [present |-> TRUE, table |-> t]

\* self.latent_features: None, or the partial bound to a list of lowercase
\* words; `fresh` is true while the operation that built the list runs
Unbound == [bound |-> FALSE, words |-> <<>>, fresh |-> FALSE]
Bound(ws) == [bound |-> TRUE, words |-> ws, fresh |-> TRUE]

Dict(keys, val(_)) == [k \in keys |-> val(k)]

\* mapping, with the two entries __init__ adds
WithStartTags(mapping) ==
    IF mapping.present
    THEN Some([t \in DOMAIN mapping.table \cup {"<START-2>", "<START-1>"} |->
                 IF t \in {"<START-2>", "<START-1>"} THEN "<START>"
                 ELSE mapping.table[t]])
    ELSE mapping

\* ASPTagger(beam_size, iterations, lexicon, mapping, brown_clusters,
\* word_to_vec), with no prior_weights and no prior_vocabulary
NewTagger(lexicon, mapping, brown_clusters, word_to_vec) ==
    [vocabulary      |-> {},
     lexicon         |-> lexicon,
     mapping         |-> WithStartTags(mapping),
     brown_clusters  |-> brown_clusters,
     word_to_vec     |-> word_to_vec,
     weights         |-> <<>>,
     target_mapping  |-> <<>>,
     target_size     |-> 0,
     latent_features |-> Unbound]

---------------------------------------------------------------------------
(* _get_static_features *)

START2 == <<"<START-2>">>
START1 == <<"<START-1>">>
END1 == <<"<END+1>">>
END2 == <<"<END+2>">>
NA == <<"N/A">>

\* "%d" % n for the small numbers of the model
Digits(n) == <<CASE n = 0 -> "0" [] n = 1 -> "1" [] n = 2 -> "2" [] n = 3 -> "3"
                 [] n = 4 -> "4" [] OTHER -> "5">>

\* round(math.log(n)) for 1 <= n < 245: the least r with n < e^(r + 0.5)
RoundLog(n) ==
    IF n <= 1 THEN 0 ELSE IF n <= 4 THEN 1 ELSE IF n <= 12 THEN 2
    ELSE IF n <= 33 THEN 3 ELSE IF n <= 90 THEN 4 ELSE 5

\* tokens = ["<START-2>", "<START-1>"] + [w.lower() ...] + ["<END+1>", "<END+2>"]
Tokens(sentence) == <<START2, START1>> \o LowerAll(sentence) \o <<END1, END2>>

\* j = i + 2
TokenIndex(i) == i + 2

\* the positions of `tokens` read for the token at sentence-local index i
Neighbors(i) ==
    LET j == TokenIndex(i)
    IN  [w |-> j, p1 |-> j - 1, p2 |-> j - 2, n1 |-> j + 1, n2 |-> j + 2]

\* a mutant of Prefix: the prefix one character short
PrefixShort(w) == PySlice(w, 0, AffixLen - 1)

\* w[:3]
Prefix(w) == PySlice(w, 0, AffixLen)

\* w[-3:]
Suffix(w) == PyLast(w, AffixLen)

FeatIf(cond, f) == IF cond THEN <<f>> ELSE <<>>

\* brown_clusters.get(w, ("N/A", 0))
BrownGet(bc, w) == IF w \in DOMAIN bc.table THEN bc.table[w] ELSE <<NA, 0>>

BrownFeatures(bc, i, length, w, p1, p2, n1, n2) ==
    IF ~bc.present THEN <<>>
    ELSE FeatIf(i >= 2, Feat("P2", "brown", BrownGet(bc, p2)[1]))
         \o FeatIf(i >= 1, Feat("P1", "brown", BrownGet(bc, p1)[1]))
         \o <<Feat("W", "brown", BrownGet(bc, w)[1]),
              Feat("W", "logfreq", Digits(BrownGet(bc, w)[2]))>>
         \o FeatIf(length - i > 1, Feat("N1", "brown", BrownGet(bc, n1)[1]))
         \o FeatIf(length - i > 2, Feat("N2", "brown", BrownGet(bc, n2)[1]))

VectorFeatures(w2v, w) ==
    IF w2v.present /\ w \in DOMAIN w2v.table
    THEN <<Feat("W", "w2v", w2v.table[w])>> ELSE <<>>

LexiconFeatures(lexicon, w) ==
    IF ~lexicon.present THEN <<>>
    ELSE IF w \in DOMAIN lexicon.table
    THEN [k \in 1..Len(lexicon.table[w]) |-> Feat("W", "lex", lexicon.table[w][k])]
    ELSE <<Feat("W", "lex", NA)>>

\* the body of `for i, word in enumerate(sentence)`: local_features
TokenFeatures(self, sentence, length, i) ==
    LET orig == sentence[i + 1]
        tokens == Tokens(sentence)
        at == Neighbors(i)
        w == PyIndex(tokens, at.w)
        p1 == PyIndex(tokens, at.p1)
        p2 == PyIndex(tokens, at.p2)
        n1 == PyIndex(tokens, at.n1)
        n2 == PyIndex(tokens, at.n2)
    IN  <<Feat("", "bias", <<>>),
          Feat("W", "loglength", Digits(RoundLog(Len(orig)))),
          Feat("W", "word", w),
          Feat("N1", "word", n1),
          Feat("N2", "word", n2),
          Feat("W", "prefix", Prefix(w)),
          Feat("W", "suffix", Suffix(w))>>
        \o FeatIf(i >= 1, Feat("P1", "suffix", Suffix(p1)))
        \o FeatIf(length - i > 1, Feat("N1", "suffix", Suffix(n1)))
        \o <<Feat("W", "shape", WordShape(orig))>>
        \o (IF i >= 2 THEN WordFlags(p2, "P2") ELSE <<>>)
        \o (IF i >= 1 THEN WordFlags(p1, "P1") ELSE <<>>)
        \o WordFlags(w, "W")
        \o (IF length - i > 1 THEN WordFlags(n1, "N1") ELSE <<>>)
        \o (IF length - i > 2 THEN WordFlags(n2, "N2") ELSE <<>>)
        \o BrownFeatures(self.brown_clusters, i, length, w, p1, p2, n1, n2)
        \o VectorFeatures(self.word_to_vec, w)
        \o LexiconFeatures(self.lexicon, w)

\* a mutant of NextStart: `start += length` forgotten
NextStartStuck(start, length) == start

\* start += length
NextStart(start, length) == start + length

\* the loop `for length in lengths` from sentence s (1-based) on; the result
\* has one entry per token: [features, sentence, i, length, at]
RECURSIVE StaticLoop(_, _, _, _, _)
StaticLoop(self, words, lengths, s, start) ==
    IF s > Len(lengths) THEN <<>>
    ELSE LET length == lengths[s]
             sentence == PySlice(words, start, start + length)
         IN  [k \in 1..Len(sentence) |->
                [features |-> TokenFeatures(self, sentence, length, k - 1),
                 sentence |-> s - 1, i |-> k - 1, length |-> length,
                 start |-> start, at |-> Neighbors(k - 1),
                 padded |-> Len(Tokens(sentence))]]
             \o StaticLoop(self, words, lengths, s + 1, NextStart(start, length))

\* _get_static_features(words, lengths): the list `features`
StaticFeatures(self, words, lengths) ==
    LET out == StaticLoop(self, words, lengths, 1, 0)
    IN  [k \in 1..Len(out) |-> out[k].features]

\* what each token's iteration read: its sentence, index and positions
StaticReads(self, words, lengths) ==
    LET out == StaticLoop(self, words, lengths, 1, 0)
    IN  [k \in 1..Len(out) |->
           [sentence |-> out[k].sentence, i |-> out[k].i, length |-> out[k].length,
            start |-> out[k].start, at |-> out[k].at, padded |-> out[k].padded]]

---------------------------------------------------------------------------
(* The fold arithmetic of crossvalidate and _cross_val_iteration *)

\* sentence_ranges: (start offset, length) of every sentence
SentenceRanges(lengths) ==
    [k \in 1..Len(lengths) |-> <<SumSeq(SubSeq(lengths, 1, k)) - lengths[k], lengths[k]>>]

FoldDiv(n) == n \div NumFolds
FoldMod(n) == n % NumFolds

\* i * div + min(i, mod)
TestLo(i, div, mod) == i * div + Min(i, mod)

\* a mutant of TestHi: the remainder is not spread over the first folds
TestHiNoRemainder(i, div, mod) == (i + 1) * div

\* (i + 1) * div + min(i + 1, mod)
TestHi(i, div, mod) == (i + 1) * div + Min(i + 1, mod)

\* the slicing at the head of _cross_val_iteration; test_ranges[0] raises
\* IndexError when the slice is empty
FoldSplit(lengths, i) ==
    LET sentence_ranges == SentenceRanges(lengths)
        div == FoldDiv(Len(sentence_ranges))
        mod == FoldMod(Len(sentence_ranges))
        lo == TestLo(i, div, mod)
        hi == TestHi(i, div, mod)
        test_ranges == PySlice(sentence_ranges, lo, hi)
        raised == PyIndexRaises(test_ranges, 0)
        last == PyIndex(test_ranges, -1)
    IN  [raised        |-> raised,
         test_ranges   |-> test_ranges,
         test_start    |-> IF raised THEN 0 ELSE PyIndex(test_ranges, 0)[1],
         test_end      |-> IF raised THEN 0 ELSE last[1] + last[2],
         test_lengths  |-> PySlice(lengths, lo, hi),
         train_lengths |-> PySlice(lengths, 0, lo) \o PySlice(lengths, hi, Len(lengths))]

---------------------------------------------------------------------------
(* The states of the parts a specification does not use *)

NoShape == [done |-> FALSE, value |-> <<>>]
NoStaticIn == [called |-> FALSE, words |-> <<>>, lengths |-> <<>>]
NoFold == [done |-> FALSE, split |-> <<>>]
NoFile == [written |-> FALSE, complete |-> FALSE, model |-> <<>>, weights |-> <<>>,
           saved |-> <<>>]
NoOp == [name |-> "__init__", args |-> <<>>, raised |-> "", result |-> <<>>]
NoPool == [state |-> "idle"]

IdleShape == word = <<>> /\ shape = NoShape
IdleStatic == staticIn = NoStaticIn /\ features = <<>> /\ reads = <<>>
IdleFolds == corpusLengths = <<>> /\ foldSlices = [i \in 0..NumFolds - 1 |-> NoFold]
FreshTagger == NewTagger(None, None, None, None)
IdleTagger ==
    /\ tagger = FreshTagger
    /\ file = NoFile
    /\ generators = {}
    /\ calls = <<>>
    /\ lastOp = NoOp
IdlePool == pool = NoPool

---------------------------------------------------------------------------
(* SpecShape: _word_shape applied to every word of the bounded set *)

Repeat(c, n) == [k \in 1..n |-> c]

\* every word of at most MaxWordLen characters, and words around LongLimit
ShapeWords ==
    SeqsUpTo(Alphabet, MaxWordLen)
    \cup {Repeat(c, n) : c \in Alphabet, n \in {LongLimit - 1, LongLimit}}
    \cup {Repeat("a", LongLimit - 2) \o <<c>> : c \in Alphabet}

InitShape ==
    /\ word \in ShapeWords
    /\ shape = NoShape
    /\ IdleStatic /\ IdleFolds /\ IdleTagger /\ IdlePool

CallWordShape ==
    /\ ~shape.done
    /\ shape' = [done |-> TRUE, value |-> WordShape(word)]
    /\ UNCHANGED <<word, staticVars, foldVars, taggerVars, cvVars>>

NextShape == CallWordShape

SpecShape == InitShape /\ [][NextShape]_vars

---------------------------------------------------------------------------
(* SpecStatic: _get_static_features on every small corpus *)

Baab == <<"B", "a", "a", "b">>
ab == <<"a", "b">>
AB == <<"A", "B">>
OneBang == <<"1", "!">>
StaticWords == {Baab, ab, AB, OneBang}

\* the ways to cut n tokens into sentences of length >= 1
RECURSIVE Compositions(_)
Compositions(n) ==
    IF n = 0 THEN {<<>>}
    ELSE UNION {{<<k>> \o rest : rest \in Compositions(n - k)} : k \in 1..n}

\* the resources a tagger may be constructed with; the cased keys "Baab" and
\* "AB" can only be hit by a lookup that does not lowercase
BrownTable == Some((ab :> <<(<<"c", "1">>), 2>>) @@ (Baab :> <<(<<"c", "2">>), 3>>))
VectorTable == Some((ab :> <<"v", "1">>) @@ (AB :> <<"v", "2">>))
LexiconTable == Some((ab :> <<(<<"N">>), (<<"V">>)>>) @@ (Baab :> <<(<<"X">>)>>))
TagMapping == Some(("N" :> "n") @@ ("V" :> "v"))

InitStatic ==
    /\ \E lex \in {None, LexiconTable}, bc \in {None, BrownTable},
          w2v \in {None, VectorTable} :
          tagger = NewTagger(lex, None, bc, w2v)
    /\ file = NoFile /\ generators = {} /\ calls = <<>> /\ lastOp = NoOp
    /\ IdleStatic /\ IdleShape /\ IdleFolds /\ IdlePool

GetStaticFeatures(words, lengths) ==
    /\ ~staticIn.called
    /\ staticIn' = [called |-> TRUE, words |-> words, lengths |-> lengths]
    /\ features' = StaticFeatures(tagger, words, lengths)
    /\ reads' = StaticReads(tagger, words, lengths)
    /\ UNCHANGED <<shapeVars, foldVars, taggerVars, cvVars>>

NextStatic ==
    \E words \in SeqsUpTo(StaticWords, MaxTokens) :
        \E lengths \in Compositions(Len(words)) :
            GetStaticFeatures(words, lengths)

SpecStatic == InitStatic /\ [][NextStatic]_vars

---------------------------------------------------------------------------
(* SpecFolds: the slicing of _cross_val_iteration for every fold of every  *)
(* corpus of at most MaxSentences sentences                                *)

\* sentence lengths: all 1, or 1, 2, 1, 2, ...
LengthPattern(n, p) == [k \in 1..n |-> IF p = 1 THEN 1 ELSE 1 + ((k + 1) % 2)]

InitFolds ==
    /\ \E n \in 0..MaxSentences, p \in 1..2 : corpusLengths = LengthPattern(n, p)
    /\ foldSlices = [i \in 0..NumFolds - 1 |-> NoFold]
    /\ IdleShape /\ IdleStatic /\ IdleTagger /\ IdlePool

SplitFold(i) ==
    /\ ~foldSlices[i].done
    /\ foldSlices' = [foldSlices EXCEPT
                         ![i] = [done |-> TRUE, split |-> FoldSplit(corpusLengths, i)]]
    /\ UNCHANGED <<corpusLengths, shapeVars, staticVars, taggerVars, cvVars>>

NextFolds == \E i \in 0..NumFolds - 1 : SplitFold(i)

SpecFolds == InitFolds /\ [][NextFolds]_vars

---------------------------------------------------------------------------
(* Properties of _word_shape (SpecShape) *)

\* the longest run of equal elements of s
MaxRun(s) ==
    IF s = <<>> THEN 0
    ELSE LET runs == {r \in 1..Len(s) :
                        \E k \in 1..Len(s) - r + 1 :
                            \A j \in k..k + r - 1 : s[j] = s[k]}
         IN  CHOOSE r \in runs : \A q \in runs : q <= r

\* s with every run of more than n equal elements cut to its first n
CutRuns(s, n) ==
    LET keep(k) == k <= n \/ \E j \in 1..n : s[k - j] # s[k]
        kept(k) == Cardinality({j \in 1..k : keep(j)})
    IN  [m \in 1..kept(Len(s)) |->
           s[CHOOSE k \in 1..Len(s) : keep(k) /\ kept(k) = m]]

ShapeChars(w) == [k \in 1..Len(w) |-> ShapeChar(w[k])]

\* C2 as stated: for a word shorter than 100 characters the shape never holds
\* more than 3 consecutive occurrences of the same shape character.
C2_AtMostThreeRepeats ==
    (shape.done /\ Len(word) < 100) => MaxRun(shape.value) <= 3

\* C2 amended: for a word shorter than 100 characters the shape never holds
\* more than 4 consecutive occurrences of the same shape character; it is the
\* sequence of the word's shape characters with every run of five or more cut
\* to exactly four.
C2_AtMostFourRepeats ==
    (shape.done /\ Len(word) < 100) =>
        /\ MaxRun(shape.value) <= 4
        /\ shape.value = CutRuns(ShapeChars(word), 4)

\* a word shorter than 100 characters with a run of 5 shape characters was shaped
C2_Witness ==
    /\ shape.done
    /\ Len(word) < 100
    /\ MaxRun(ShapeChars(word)) >= 5
    /\ Len(shape.value) < Len(word)

---------------------------------------------------------------------------
(* Properties of the fold arithmetic (SpecFolds) *)

\* the number of sentences fold k is to hold out of n
FoldSize(n, k) == (n \div 10) + (IF k < n % 10 THEN 1 ELSE 0)

RECURSIVE FoldOffset(_, _)
FoldOffset(n, k) == IF k = 0 THEN 0 ELSE FoldOffset(n, k - 1) + FoldSize(n, k - 1)

AllFoldsSplit == \A k \in 0..9 : foldSlices[k].done

\* C1: fold k holds out div + 1 sentences if k < mod and div otherwise; the
\* slices are contiguous, disjoint, in sentence order and cover all N
\* sentences, so the sizes sum to N and differ by at most 1.
C1_FoldsPartitionSentences ==
    LET n == Len(corpusLengths)
        all == SentenceRanges(corpusLengths)
        test(k) == foldSlices[k].split.test_ranges
    IN  /\ \A k \in 0..9 :
              foldSlices[k].done =>
                  /\ Len(test(k)) = FoldSize(n, k)
                  /\ test(k) = SubSeq(all, FoldOffset(n, k) + 1,
                                      FoldOffset(n, k) + FoldSize(n, k))
        /\ AllFoldsSplit =>
              /\ Concat([k \in 1..10 |-> test(k - 1)]) = all
              /\ SumSeq([k \in 1..10 |-> Len(test(k - 1))]) = n
              /\ \A j, k \in 0..9 : Len(test(j)) - Len(test(k)) <= 1

\* the 23 sentences of the spec's example were split: 3, 3, 3, 2, ..., 2
C1_Witness ==
    /\ Len(corpusLengths) = 23
    /\ AllFoldsSplit
    /\ \A k \in 0..9 :
          Len(foldSlices[k].split.test_ranges) = IF k < 3 THEN 3 ELSE 2

---------------------------------------------------------------------------
(* Properties of _get_static_features (SpecStatic) *)

\* the sentence (1-based) of the token at global position t (1-based)
Offset(lengths, s) == SumSeq(SubSeq(lengths, 1, s - 1))
SentenceOf(lengths, t) ==
    CHOOSE s \in 1..Len(lengths) :
        Offset(lengths, s) < t /\ t <= Offset(lengths, s) + lengths[s]

FeatValues(fs, pos, name) ==
    {fs[k].value : k \in {j \in 1..Len(fs) : fs[j].pos = pos /\ fs[j].name = name}}
HasFeat(fs, pos, name) == \E k \in 1..Len(fs) : fs[k].pos = pos /\ fs[k].name = name

FirstThree(w) == SubSeq(w, 1, Min(3, Len(w)))
LastThree(w) == SubSeq(w, Max(1, Len(w) - 2), Len(w))

\* C8 as stated: W_prefix and W_suffix are the first and last 3 characters of
\* the current word in its original casing.
C8_AffixesInOriginalCasing ==
    staticIn.called =>
        \A t \in 1..Len(staticIn.words) :
            /\ FeatValues(features[t], "W", "prefix") = {FirstThree(staticIn.words[t])}
            /\ FeatValues(features[t], "W", "suffix") = {LastThree(staticIn.words[t])}

\* C8 amended: W_prefix and W_suffix are the first and last 3 characters
\* (fewer if the word is shorter) of the LOWERCASED current word; only W_shape
\* (and W_loglength) use the original casing; W_word and the cluster, vector
\* and lexicon lookups use the lowercased form.
C8_AffixesLowercased ==
    staticIn.called =>
        /\ Len(features) = Len(staticIn.words)
        /\ \A t \in 1..Len(staticIn.words) :
              LET orig == staticIn.words[t]
                  low == [k \in 1..Len(orig) |-> LowerChar(orig[k])]
                  fs == features[t]
              IN  /\ FeatValues(fs, "W", "prefix") = {FirstThree(low)}
                  /\ FeatValues(fs, "W", "suffix") = {LastThree(low)}
                  /\ FeatValues(fs, "W", "shape") = {WordShape(orig)}
                  /\ FeatValues(fs, "W", "word") = {low}
                  /\ tagger.brown_clusters.present =>
                        FeatValues(fs, "W", "brown") =
                            {IF low \in DOMAIN tagger.brown_clusters.table
                             THEN tagger.brown_clusters.table[low][1] ELSE NA}
                  /\ tagger.word_to_vec.present =>
                        (HasFeat(fs, "W", "w2v")
                            <=> low \in DOMAIN tagger.word_to_vec.table)
                  /\ tagger.lexicon.present =>
                        FeatValues(fs, "W", "lex") =
                            (IF low \in DOMAIN tagger.lexicon.table
                             THEN Range(tagger.lexicon.table[low]) ELSE {NA})

\* features were built for a capitalised word of more than 3 characters, with
\* every resource table present
C8_Witness ==
    /\ staticIn.called
    /\ tagger.lexicon.present /\ tagger.brown_clusters.present
    /\ tagger.word_to_vec.present
    /\ \E t \in 1..Len(staticIn.words) :
          /\ staticIn.words[t] = Baab
          /\ FeatValues(features[t], "W", "prefix") = {<<"b", "a", "a">>}

\* C9: the token at sentence-local index i of a sentence of length L gets a
\* P1_suffix feature iff i >= 1 and an N1_suffix feature iff L - i > 1, and the
\* neighbor lookups read positions of the padded view of its own sentence.
C9_NeighborsInsideSentence ==
    staticIn.called =>
        /\ Len(features) = Len(staticIn.words)
        /\ Len(reads) = Len(staticIn.words)
        /\ \A t \in 1..Len(staticIn.words) :
              LET lengths == staticIn.lengths
                  s == SentenceOf(lengths, t)
                  L == lengths[s]
                  i == t - Offset(lengths, s) - 1
                  fs == features[t]
                  \* the lowercased word d places after the token, or the padding
                  view(d) == IF i + d < 0 THEN (IF i + d = -1 THEN START1 ELSE START2)
                             ELSE IF i + d >= L
                                  THEN (IF i + d = L THEN END1 ELSE END2)
                                  ELSE Lower(staticIn.words[t + d])
              IN  /\ reads[t].sentence = s - 1 /\ reads[t].i = i
                  /\ reads[t].padded = L + 4
                  /\ \A k \in {reads[t].at.p2, reads[t].at.p1, reads[t].at.w,
                               reads[t].at.n1, reads[t].at.n2} :
                        0 <= k /\ k < L + 4
                  /\ reads[t].at.w = i + 2
                  /\ HasFeat(fs, "P1", "suffix") <=> i >= 1
                  /\ HasFeat(fs, "N1", "suffix") <=> L - i > 1
                  /\ FeatValues(fs, "W", "word") = {view(0)}
                  /\ FeatValues(fs, "N1", "word") = {view(1)}
                  /\ FeatValues(fs, "N2", "word") = {view(2)}
                  /\ i >= 1 => FeatValues(fs, "P1", "suffix") = {LastThree(view(-1))}
                  /\ L - i > 1 => FeatValues(fs, "N1", "suffix") = {LastThree(view(1))}

\* features were built for two sentences; the first token of the second one
\* (i = 0, L = 2) has an N1_suffix and no P1_suffix
C9_Witness ==
    /\ staticIn.called
    /\ staticIn.lengths = <<1, 2>>
    /\ staticIn.words = <<Baab, AB, ab>>
    /\ ~HasFeat(features[2], "P1", "suffix")
    /\ HasFeat(features[2], "N1", "suffix")
    /\ HasFeat(features[3], "P1", "suffix")
    /\ ~HasFeat(features[3], "N1", "suffix")

---------------------------------------------------------------------------
(* The learner: AveragedStructuredPerceptron.fit, predict and score.  Its  *)
(* code is not part of tagger.py; it is modelled from its contract: fit    *)
(* trains in place and sets weights, target_mapping and target_size;       *)
(* predict returns one tag per token; score returns an accuracy.           *)

Tags == {"N", "V"}

\* the bytes (little-endian IEEE 754) of the 64-bit floats 0.0 and 1.0
FloatZero == <<0, 0, 0, 0, 0, 0, 0, 0>>
FloatOne == <<0, 0, 0, 0, 0, 0, 240, 63>>
FloatSmall == <<154, 153, 153, 153, 153, 153, 185, 63>>    \* 0.1
Floats == {FloatZero, FloatOne, FloatSmall}

\* a dense vector of n floats, all equal to f, as its bytes
Vector(f, n) == Concat([k \in 1..n |-> f])

Bias == Feat("", "bias", <<>>)

\* the features of X the model gives weights to: bias and W_word
Tracked(X) ==
    {f \in UNION {Range(X[t]) : t \in 1..Len(X)} :
        f = Bias \/ (f.pos = "W" /\ f.name = "word")}

\* tag -> index, in the order N, V
TagIndex(tags) == [t \in tags |-> IF t = "V" /\ "N" \in tags THEN 1 ELSE 0]

\* self after fit(X, y, lengths); vb and vw are the floats training arrives at
\* for the bias feature and for the word features
Fit(self, X, y, lengths, vb, vw) ==
    LET tags == Range(y)
        size == Cardinality(tags)
        keys == DOMAIN self.weights \cup Tracked(X)
    IN  [self EXCEPT
            !.target_mapping = TagIndex(tags),
            !.target_size = size,
            !.weights = [k \in keys |->
                            IF k = Bias THEN Vector(vb, size) ELSE Vector(vw, size)]]

\* the tag sequences predict may return for `lengths`: any tags, per sentence
Predictions(lengths) ==
    {[s \in 1..Len(lengths) |->
        SubSeq(flat, Offset(lengths, s) + 1, Offset(lengths, s) + lengths[s])] :
     flat \in [1..SumSeq(lengths) -> Tags]}

\* one invocation of the learner, with the callback installed at that moment
Call(fn, self, X, lengths) ==
    [fn |-> fn, X |-> X, lengths |-> lengths, latent_features |-> self.latent_features]

\* every operation starts with the lists of earlier operations no longer new
Aged(self) == [self EXCEPT !.latent_features.fresh = FALSE]

\* self.latent_features = functools.partial(self._get_latent_features,
\*                                          [w.lower() for w in words])
BindLatent(self, words) == [self EXCEPT !.latent_features = Bound(LowerAll(words))]

---------------------------------------------------------------------------
(* train, tag, evaluate *)

Corpus(words, tags, lengths) == [words |-> words, tags |-> tags, lengths |-> lengths]

\* an operation on the tagger: its arguments, the exception it raised ("" if
\* none) and what it returned
Op(name, args, raised, result) ==
    [name |-> name, args |-> args, raised |-> raised, result |-> result]

PoolIdle == pool.state # "running"

MaxGenerators == 1     \* most generators of tag not yet consumed

\* a mutant of TrainVocabulary: the vocabulary is replaced, not updated
TrainVocabularyReplaced(self, words) == [self EXCEPT !.vocabulary = Range(words)]

\* self.vocabulary.update(set(words))
TrainVocabulary(self, words) ==
    [self EXCEPT !.vocabulary = self.vocabulary \cup Range(words)]

Train(c, vb, vw) ==
    /\ PoolIdle
    /\ LET bound == BindLatent(TrainVocabulary(Aged(tagger), c.words), c.words)
           X == StaticFeatures(bound, c.words, c.lengths)
       IN  /\ calls' = <<Call("fit", bound, X, c.lengths)>>
           /\ tagger' = Fit(bound, X, c.tags, c.lengths, vb, vw)
    /\ lastOp' = Op("train", c, "", <<>>)
    /\ UNCHANGED <<file, generators, shapeVars, staticVars, foldVars, cvVars>>

\* a generator object of tag: its arguments, and (for the record) the
\* callback that was installed when it was created
Generator(c, self) == [c |-> c, created |-> self.latent_features]

\* tag(words, lengths) is a generator function: the call runs none of its body
TagCall(c) ==
    /\ PoolIdle
    /\ Cardinality(generators) < MaxGenerators
    /\ \A g \in generators : g.c # c
    /\ generators' = generators \cup {Generator(c, Aged(tagger))}
    /\ tagger' = Aged(tagger)
    /\ calls' = <<>>
    /\ lastOp' = Op("tag", c, "", <<>>)
    /\ UNCHANGED <<file, shapeVars, staticVars, foldVars, cvVars>>

\* a mutant of TagBind: the generator's body does not install the callback
TagBindSkipped(self, words) == self

\* the first statement of the body of tag
TagBind(self, words) == BindLatent(self, words)

\* the first next() on a generator runs the body of tag up to its first yield
\* (or to its end); the later yields touch nothing of the tagger.  `tags` is
\* what predict returns.
TagNext(g, tags) ==
    /\ PoolIdle
    /\ g \in generators
    /\ tags \in Predictions(g.c.lengths)
    /\ generators' = generators \ {g}
    /\ LET bound == TagBind(Aged(tagger), g.c.words)
           X == StaticFeatures(bound, g.c.words, g.c.lengths)
       IN  /\ calls' = <<Call("predict", bound, X, g.c.lengths)>>
           /\ tagger' = bound
           /\ lastOp' = Op("tag_next",
                        [generator |-> g, installed |-> Aged(tagger).latent_features],
                        "",
                        [s \in 1..Len(g.c.lengths) |->
                           [words |-> PySlice(g.c.words, Offset(g.c.lengths, s),
                                              Offset(g.c.lengths, s) + g.c.lengths[s]),
                            tags |-> tags[s]]])
    /\ UNCHANGED <<file, shapeVars, staticVars, foldVars, cvVars>>

\* zip(a, b, c)
Zip3(a, b, c) ==
    [k \in 1..Min(Len(a), Min(Len(b), Len(c))) |-> <<a[k], b[k], c[k]>>]

\* the (w, g, p) triples the loops of evaluate visit, in order
EvaluatedTokens(words, tags, lengths, predicted) ==
    Concat([s \in 1..Min(Len(lengths), Len(predicted)) |->
              LET start == Offset(lengths, s)
              IN  Zip3(PySlice(words, start, start + lengths[s]),
                       PySlice(tags, start, start + lengths[s]),
                       predicted[s])])

\* the six counters of evaluate after its loops
Count(self, words, tags, lengths, predicted) ==
    LET wgp == EvaluatedTokens(words, tags, lengths, predicted)
        iv == {t \in 1..Len(wgp) : wgp[t][1] \in self.vocabulary}
        ok == {t \in 1..Len(wgp) : wgp[t][2] = wgp[t][3]}
    IN  [total |-> Len(wgp),
         total_iv |-> Cardinality(iv),
         total_oov |-> Len(wgp) - Cardinality(iv),
         correct |-> Cardinality(ok),
         correct_iv |-> Cardinality(ok \cap iv),
         correct_oov |-> Cardinality(ok \ iv)]

\* a / b as a fraction
Div(a, b) == <<a, b>>
\* the 0 substituted on ZeroDivisionError
Zero == <<0, 1>>

\* try: a / b  except ZeroDivisionError: 0
GuardedDiv(a, b) == IF b = 0 THEN Zero ELSE Div(a, b)

\* evaluate(words, tags, lengths); `predicted` is what predict returns
Evaluate(c, predicted) ==
    /\ PoolIdle
    /\ predicted \in Predictions(c.lengths)
    /\ LET bound == BindLatent(Aged(tagger), c.words)
           X == StaticFeatures(bound, c.words, c.lengths)
       IN  /\ calls' = <<Call("predict", bound, X, c.lengths)>>
           /\ tagger' = bound
           /\ LET n == Count(bound, c.words, c.tags, c.lengths, predicted)
              IN  lastOp' =
                     IF n.total = 0
                     THEN Op("evaluate", c, "ZeroDivisionError", <<>>)
                     ELSE Op("evaluate", c, "",
                             <<Div(n.correct, n.total),
                               GuardedDiv(n.correct_iv, n.total_iv),
                               GuardedDiv(n.correct_oov, n.total_oov)>>)
    /\ UNCHANGED <<file, generators, shapeVars, staticVars, foldVars, cvVars>>

---------------------------------------------------------------------------
(* base64.b85encode / b85decode of a weight vector's bytes.  A character   *)
(* of the encoding is represented by its value 0..84 in the b85 alphabet.  *)
(* The bytes of a vector of 64-bit floats come in groups of 4, so the      *)
(* padding of b85encode never applies.                                     *)

\* the 4-byte big-endian number `num` divided by 85: [q |-> 4 bytes, r |-> 0..84]
DivBy85(num) ==
    LET c1 == num[1]
        c2 == (c1 % 85) * 256 + num[2]
        c3 == (c2 % 85) * 256 + num[3]
        c4 == (c3 % 85) * 256 + num[4]
    IN  [q |-> <<c1 \div 85, c2 \div 85, c3 \div 85, c4 \div 85>>, r |-> c4 % 85]

\* 4 bytes -> 5 characters, most significant first
EncodeGroup(bytes) ==
    LET d5 == DivBy85(bytes)
        d4 == DivBy85(d5.q)
        d3 == DivBy85(d4.q)
        d2 == DivBy85(d3.q)
        d1 == DivBy85(d2.q)
    IN  <<d1.r, d2.r, d3.r, d4.r, d5.r>>

\* the 4-byte big-endian number `num` times 85 plus d (modulo 2^32)
Times85Plus(num, d) ==
    LET c4 == num[4] * 85 + d
        c3 == num[3] * 85 + c4 \div 256
        c2 == num[2] * 85 + c3 \div 256
        c1 == num[1] * 85 + c2 \div 256
    IN  <<c1 % 256, c2 % 256, c3 % 256, c4 % 256>>

\* 5 characters -> 4 bytes
DecodeGroup(chars) ==
    Times85Plus(Times85Plus(Times85Plus(Times85Plus(
        Times85Plus(<<0, 0, 0, 0>>, chars[1]), chars[2]), chars[3]), chars[4]), chars[5])

B85Encode(bytes) ==
    Concat([g \in 1..Len(bytes) \div 4 |-> EncodeGroup(SubSeq(bytes, 4 * g - 3, 4 * g))])

B85Decode(chars) ==
    Concat([g \in 1..Len(chars) \div 5 |-> DecodeGroup(SubSeq(chars, 5 * g - 4, 5 * g))])

---------------------------------------------------------------------------
(* save and load *)

\* the code points of the characters of the model's weight keys
CodePoint(c) ==
    CASE c = " " -> 32 [] c = "!" -> 33 [] c = "1" -> 49 [] c = ":" -> 58
      [] c = "A" -> 65 [] c = "B" -> 66 [] c = "W" -> 87 [] c = "_" -> 95
      [] c = "a" -> 97 [] c = "b" -> 98 [] c = "d" -> 100 [] c = "i" -> 105
      [] c = "o" -> 111 [] c = "r" -> 114 [] c = "s" -> 115 [] c = "w" -> 119

\* the key of a weight as the string the program holds: "bias", "W_word: ab"
FeatString(f) ==
    IF f = Bias THEN <<"b", "i", "a", "s">>
    ELSE <<"W", "_", "w", "o", "r", "d", ":", " ">> \o f.value

\* a < b for strings: by code point, a proper prefix first
StrLess(a, b) ==
    \E k \in 1..Len(b) :
        /\ \A j \in 1..k - 1 : j <= Len(a) /\ a[j] = b[j]
        /\ k > Len(a) \/ (k <= Len(a) /\ CodePoint(a[k]) < CodePoint(b[k]))

\* sorted(self.weights.keys())
SortedKeys(S) ==
    [m \in 1..Cardinality(S) |->
        CHOOSE k \in S :
            Cardinality({j \in S : StrLess(FeatString(j), FeatString(k))}) = m - 1]

\* list(self.vocabulary): the elements in some order
Orderings(S) ==
    {seq \in [1..Cardinality(S) -> S] : \A e \in S : \E k \in 1..Cardinality(S) : seq[k] = e}

\* the attributes save is to persist
Persisted(self) ==
    [vocabulary     |-> self.vocabulary,
     lexicon        |-> self.lexicon,
     mapping        |-> self.mapping,
     brown_clusters |-> self.brown_clusters,
     word_to_vec    |-> self.word_to_vec,
     target_mapping |-> self.target_mapping,
     target_size    |-> self.target_size,
     weights        |-> self.weights]

\* what save has written before the loop over features[:-1]: 8 of the 9
\* elements.  json.dumps keeps the model's tables as they are (their keys
\* are strings, their values strings, numbers and lists).
Preamble(self, vocabulary, featureList) ==
    [vocabulary     |-> vocabulary,
     lexicon        |-> self.lexicon,
     mapping        |-> self.mapping,
     brown_clusters |-> self.brown_clusters,
     word_to_vec    |-> self.word_to_vec,
     target_mapping |-> self.target_mapping,
     target_size    |-> self.target_size,
     features       |-> featureList]

\* save(filename): `features[-1]` raises IndexError on an empty weight table,
\* after the first 8 elements were written; the `with` closes the file.
\* `saved` records the attributes as they were (it is not part of the file).
Save ==
    /\ PoolIdle
    /\ \E vocabulary \in Orderings(tagger.vocabulary) :
          LET featureList == SortedKeys(DOMAIN tagger.weights)
              head == Preamble(tagger, vocabulary, featureList)
          IN  IF PyIndexRaises(featureList, -1)
              THEN /\ file' = [written |-> TRUE, complete |-> FALSE, model |-> head,
                               weights |-> <<>>, saved |-> Persisted(tagger)]
                   /\ lastOp' = Op("save", <<>>, "IndexError", <<>>)
              ELSE /\ file' = [written |-> TRUE, complete |-> TRUE, model |-> head,
                               weights |-> [k \in 1..Len(featureList) |->
                                              B85Encode(tagger.weights[featureList[k]])],
                               saved |-> Persisted(tagger)]
                   /\ lastOp' = Op("save", <<>>, "", <<>>)
    /\ tagger' = Aged(tagger)
    /\ calls' = <<>>
    /\ UNCHANGED <<generators, shapeVars, staticVars, foldVars, cvVars>>

\* {f: np.fromstring(base64.b85decode(w), np.float64) for f, w in zip(features, weights)}
ZipWeights(featureList, weights) ==
    [f \in {featureList[k] : k \in 1..Min(Len(featureList), Len(weights))} |->
        B85Decode(weights[CHOOSE k \in 1..Min(Len(featureList), Len(weights)) :
                             featureList[k] = f])]

\* self.vocabulary = set(vocabulary)
LoadVocabulary(self, vocabulary) == [self EXCEPT !.vocabulary = Range(vocabulary)]

\* what a load found on entry (for the record)
Entry(self) == [vocabulary |-> self.vocabulary]

\* load(filename): gzip.open raises when there is no file, json.loads when
\* the file is the torso of a failed save; nothing is assigned before either
Load ==
    /\ PoolIdle
    /\ IF ~file.written
       THEN /\ tagger' = Aged(tagger)
            /\ lastOp' = Op("load", Entry(tagger), "FileNotFoundError", <<>>)
       ELSE IF ~file.complete
       THEN /\ tagger' = Aged(tagger)
            /\ lastOp' = Op("load", Entry(tagger), "JSONDecodeError", <<>>)
       ELSE /\ tagger' = [LoadVocabulary(Aged(tagger), file.model.vocabulary) EXCEPT
                             !.lexicon = file.model.lexicon,
                             !.mapping = file.model.mapping,
                             !.brown_clusters = file.model.brown_clusters,
                             !.word_to_vec = file.model.word_to_vec,
                             !.target_mapping = file.model.target_mapping,
                             !.target_size = file.model.target_size,
                             !.weights = ZipWeights(file.model.features, file.weights)]
            /\ lastOp' = Op("load", Entry(tagger), "", <<>>)
    /\ calls' = <<>>
    /\ UNCHANGED <<file, generators, shapeVars, staticVars, foldVars, cvVars>>

---------------------------------------------------------------------------
(* _cross_val_iteration *)

\* the model state a fit starts on
ModelState(self) ==
    [weights |-> self.weights, target_mapping |-> self.target_mapping,
     target_size |-> self.target_size]

\* _cross_val_iteration(i, words, X, y, lengths, ...) on the instance self0:
\* the instance afterwards, what was raised, the accuracy returned, the
\* learner invocations made and the model state fit started on
CrossValIterationOn(self0, i, c, X, vb, vw, accuracy) ==
    LET self == Aged(self0)
        split == FoldSplit(c.lengths, i)
        n == Len(c.words)
        test_words == PySlice(c.words, split.test_start, split.test_end)
        test_X == PySlice(X, split.test_start, split.test_end)
        test_y == PySlice(c.tags, split.test_start, split.test_end)
        train_words == PySlice(c.words, 0, split.test_start)
                       \o PySlice(c.words, split.test_end, n)
        train_X == PySlice(X, 0, split.test_start) \o PySlice(X, split.test_end, n)
        train_y == PySlice(c.tags, 0, split.test_start)
                   \o PySlice(c.tags, split.test_end, n)
        bound1 == BindLatent(self, train_words)
        fitted == Fit(bound1, train_X, train_y, split.train_lengths, vb, vw)
        bound2 == BindLatent(fitted, test_words)
    IN  IF split.raised
        THEN [self |-> self, raised |-> "IndexError", accuracy |-> <<>>,
              calls |-> <<>>, fitted |-> FALSE, fitStart |-> ModelState(self)]
        ELSE [self |-> bound2, raised |-> "", accuracy |-> accuracy,
              calls |-> <<Call("fit", bound1, train_X, split.train_lengths),
                          Call("score", bound2, test_X, split.test_lengths)>>,
              fitted |-> TRUE, fitStart |-> ModelState(bound1)]

\* one fold run on the tagger itself (as `list(map(cvi, range(10)))` does)
CrossValIteration(i, c, vb, vw, accuracy) ==
    /\ PoolIdle
    /\ LET X == StaticFeatures(tagger, c.words, c.lengths)
           r == CrossValIterationOn(tagger, i, c, X, vb, vw, accuracy)
       IN  /\ tagger' = r.self
           /\ calls' = r.calls
           /\ lastOp' = Op("_cross_val_iteration", [i |-> i, c |-> c], r.raised, r.accuracy)
    /\ UNCHANGED <<file, generators, shapeVars, staticVars, foldVars, cvVars>>

---------------------------------------------------------------------------
(* crossvalidate: multiprocessing.Pool().map(cvi, range(10)).  map cuts    *)
(* the 10 fold indices into chunks; a chunk is one task: the pickled       *)
(* partial (and with it the tagger) and its fold indices.  A worker takes  *)
(* the next task, unpickles its own copy of the tagger and runs the        *)
(* chunk's folds on it in order; an exception ends the chunk and is        *)
(* re-raised by map in the parent.                                         *)

\* chunksize, extra = divmod(len(iterable), len(self._pool) * 4); if extra: chunksize += 1
ChunkSize(nproc) ==
    (NumFolds \div (nproc * 4)) + (IF NumFolds % (nproc * 4) # 0 THEN 1 ELSE 0)

ChunkCount(nproc) ==
    (NumFolds \div ChunkSize(nproc)) + (IF NumFolds % ChunkSize(nproc) # 0 THEN 1 ELSE 0)

\* the fold indices of chunk g (1-based)
ChunkFolds(nproc, g) ==
    [k \in 1..Min(ChunkSize(nproc), NumFolds - (g - 1) * ChunkSize(nproc)) |->
        (g - 1) * ChunkSize(nproc) + k - 1]

NoResult == [done |-> FALSE, accuracy |-> <<>>]
NoFitStart == [started |-> FALSE, model |-> <<>>]

\* crossvalidate up to pool.map: the parent computes X and hands the 10 folds
\* to a pool of nproc workers, then blocks in map
CrossvalidateStart(c, nproc) ==
    /\ PoolIdle
    /\ tagger' = Aged(tagger)
    /\ calls' = <<>>
    /\ lastOp' = Op("crossvalidate", c, "running", <<>>)
    /\ pool' = [state    |-> "running",
                corpus   |-> c,
                X        |-> StaticFeatures(tagger, c.words, c.lengths),
                pickled  |-> Aged(tagger),
                chunks   |-> [g \in 1..ChunkCount(nproc) |->
                                [folds |-> ChunkFolds(nproc, g), status |-> "queued",
                                 next |-> 1, self |-> Aged(tagger)]],
                workers  |-> [w \in 1..nproc |-> 0],
                results  |-> [i \in 0..NumFolds - 1 |-> NoResult],
                fitStart |-> [i \in 0..NumFolds - 1 |-> NoFitStart],
                failed   |-> {}]
    /\ UNCHANGED <<file, generators, shapeVars, staticVars, foldVars>>

PoolRunning == pool.state = "running"

\* an idle worker takes the first queued task and unpickles its tagger
WorkerTake(w) ==
    /\ PoolRunning
    /\ w \in DOMAIN pool.workers
    /\ pool.workers[w] = 0
    /\ \E g \in DOMAIN pool.chunks :
          /\ pool.chunks[g].status = "queued"
          /\ \A h \in 1..g - 1 : pool.chunks[h].status # "queued"
          /\ pool' = [pool EXCEPT !.workers[w] = g,
                                  !.chunks[g].status = "running",
                                  !.chunks[g].self = pool.pickled]
    /\ UNCHANGED <<taggerVars, shapeVars, staticVars, foldVars>>

\* a worker runs the next fold of its chunk; scores[i] is what score returns
\* in fold i
WorkerRun(w, vb, vw, scores) ==
    /\ PoolRunning
    /\ w \in DOMAIN pool.workers
    /\ pool.workers[w] # 0
    /\ LET g == pool.workers[w]
           chunk == pool.chunks[g]
           i == chunk.folds[chunk.next]
           r == CrossValIterationOn(chunk.self, i, pool.corpus, pool.X,
                                    vb, vw, scores[i])
           last == chunk.next = Len(chunk.folds)
       IN  IF r.raised # ""
           THEN pool' = [pool EXCEPT !.workers[w] = 0,
                                     !.chunks[g].status = "failed",
                                     !.chunks[g].self = pool.pickled,
                                     !.failed = pool.failed \cup {i}]
           ELSE pool' = [pool EXCEPT
                            !.workers[w] = IF last THEN 0 ELSE g,
                            !.chunks[g].status = IF last THEN "done" ELSE "running",
                            !.chunks[g].next = IF last THEN chunk.next ELSE chunk.next + 1,
                            !.chunks[g].self = IF last THEN pool.pickled ELSE r.self,
                            !.results[i] = [done |-> TRUE, accuracy |-> r.accuracy],
                            !.fitStart[i] = [started |-> TRUE, model |-> r.fitStart]]
    /\ UNCHANGED <<taggerVars, shapeVars, staticVars, foldVars>>

\* statistics.mean(accuracies), 2 * statistics.stdev(accuracies) for
\* accuracies of denominator 1: the mean as a fraction, and the square of
\* 2 * stdev as a fraction (4 * (n * sum(x^2) - sum(x)^2) / (n * (n - 1)))
Statistics(accuracies) ==
    LET n == Len(accuracies)
        sum == SumSeq([k \in 1..n |-> accuracies[k][1]])
        squares == SumSeq([k \in 1..n |-> accuracies[k][1] * accuracies[k][1]])
    IN  [mean |-> <<sum, n>>,
         two_stdev_squared |-> <<4 * (n * squares - sum * sum), n * (n - 1)>>]

\* a mutant of MapComplete: map returns once no task is queued or running
MapCompleteIgnoringFailures(p) ==
    \A g \in DOMAIN p.chunks : p.chunks[g].status \in {"done", "failed"}

\* pool.map returns when every task has delivered its results
MapComplete(p) == \A g \in DOMAIN p.chunks : p.chunks[g].status = "done"

\* pool.map re-raises the exception of a failed task
MapFailed(p) == \E g \in DOMAIN p.chunks : p.chunks[g].status = "failed"

\* the accuracies map hands back: those of the folds that delivered one
Delivered(p) ==
    LET done == {i \in 0..NumFolds - 1 : p.results[i].done}
        nth(k) == CHOOSE i \in done : Cardinality({j \in done : j < i}) = k - 1
    IN  [k \in 1..Cardinality(done) |-> p.results[nth(k)].accuracy]

CrossvalidateReturn ==
    /\ PoolRunning
    /\ MapComplete(pool)
    /\ pool' = [pool EXCEPT !.state = "returned"]
    /\ lastOp' = Op("crossvalidate", pool.corpus, "", Statistics(Delivered(pool)))
    /\ UNCHANGED <<tagger, file, generators, calls, shapeVars, staticVars, foldVars>>

\* the exception leaves the `with` block, which terminates the pool
CrossvalidateRaise ==
    /\ PoolRunning
    /\ MapFailed(pool)
    /\ pool' = [pool EXCEPT !.state = "raised"]
    /\ lastOp' = Op("crossvalidate", pool.corpus, "IndexError", <<>>)
    /\ UNCHANGED <<tagger, file, generators, calls, shapeVars, staticVars, foldVars>>

---------------------------------------------------------------------------
(* The corpora the callers of the model pass in *)

CorpusA == Corpus(<<AB, ab>>, <<"N", "V">>, <<2>>)
CorpusB == Corpus(<<ab, OneBang>>, <<"V", "N">>, <<1, 1>>)
CorpusC == Corpus(<<ab>>, <<"V">>, <<1>>)
EmptyCorpus == Corpus(<<>>, <<>>, <<>>)

\* n sentences of one word each
CVCorpus(n) ==
    Corpus([k \in 1..n |-> IF k % 2 = 1 THEN ab ELSE AB],
           [k \in 1..n |-> IF k % 3 = 0 THEN "V" ELSE "N"],
           [k \in 1..n |-> 1])

\* the accuracy score returns in each fold, as a fraction <<numerator,
\* denominator>>: 1 in the even folds, 0 in the odd
FoldScores == [i \in 0..NumFolds - 1 |-> IF i % 2 = 0 THEN <<1, 1>> ELSE <<0, 1>>]

MaxProcs == 2          \* most worker processes of the pool (os.cpu_count())
MaxCVSentences == 10   \* most sentences of a cross-validated corpus

---------------------------------------------------------------------------
(* SpecTagger: train, tag, evaluate and folds on one tagger *)

InitTagger ==
    /\ tagger = NewTagger(None, None, None, None)
    /\ file = NoFile /\ generators = {} /\ calls = <<>> /\ lastOp = NoOp
    /\ IdleShape /\ IdleStatic /\ IdleFolds /\ IdlePool

NextTagger ==
    \/ \E c \in {CorpusA, CorpusB} : Train(c, FloatOne, FloatSmall)
    \/ \E c \in {CorpusA, EmptyCorpus} : TagCall(c)
    \/ \E g \in generators : \E tags \in Predictions(g.c.lengths) : TagNext(g, tags)
    \/ \E c \in {CorpusB, EmptyCorpus} : \E predicted \in Predictions(c.lengths) :
          Evaluate(c, predicted)
    \/ \E i \in {0, 1, NumFolds - 1} :
          CrossValIteration(i, CorpusB, FloatOne, FloatSmall, <<1, 1>>)

SpecTagger == InitTagger /\ [][NextTagger]_vars

---------------------------------------------------------------------------
(* SpecPersist: every public operation of one tagger, with save and load *)

InitPersist ==
    /\ tagger = NewTagger(LexiconTable, TagMapping, BrownTable, VectorTable)
    /\ file = NoFile /\ generators = {} /\ calls = <<>> /\ lastOp = NoOp
    /\ IdleShape /\ IdleStatic /\ IdleFolds /\ IdlePool

NextPersist ==
    \/ Train(CorpusA, FloatOne, FloatSmall)
    \/ Train(CorpusC, FloatSmall, FloatZero)
    \/ TagCall(CorpusA)
    \/ \E g \in generators : TagNext(g, <<<<"N", "V">>>>)
    \/ Evaluate(CorpusB, <<<<"V">>, <<"V">>>>)
    \/ Save
    \/ Load
    \/ CrossvalidateStart(CVCorpus(NumFolds), 1)
    \/ WorkerTake(1)
    \/ WorkerRun(1, FloatOne, FloatZero, FoldScores)
    \/ CrossvalidateReturn

SpecPersist == InitPersist /\ [][NextPersist]_vars

---------------------------------------------------------------------------
(* SpecCV: crossvalidate on a fresh or a trained tagger, the fold jobs     *)
(* running in the pool's worker processes                                  *)

InitCV ==
    /\ IdleTagger
    /\ IdleShape /\ IdleStatic /\ IdleFolds /\ IdlePool

NextCV ==
    \/ /\ lastOp.name = "__init__"
       /\ Train(CorpusA, FloatOne, FloatSmall)
    \/ /\ pool.state = "idle"
       /\ \E n \in NumFolds - 1..MaxCVSentences, nproc \in 1..MaxProcs :
             CrossvalidateStart(CVCorpus(n), nproc)
    \/ \E w \in 1..MaxProcs : WorkerTake(w)
    \/ \E w \in 1..MaxProcs : WorkerRun(w, FloatOne, FloatSmall, FoldScores)
    \/ CrossvalidateReturn
    \/ CrossvalidateRaise

SpecCV == InitCV /\ [][NextCV]_vars

---------------------------------------------------------------------------
(* Properties of evaluate and of the latent-feature callback (SpecTagger) *)

\* the tokens of a corpus that are in the vocabulary
InVocabulary(c, vocabulary) == {t \in 1..Len(c.words) : c.words[t] \in vocabulary}

\* C6: for every input of evaluate, with no tokens at all included, a
\* category (IV or OOV) without tokens never makes evaluate fail on a
\* division by zero, and its accuracy is reported as 0.
C6_EmptyCategoryReportsZero ==
    lastOp.name = "evaluate" =>
        LET c == lastOp.args
            iv == InVocabulary(c, tagger.vocabulary)
        IN  /\ iv = {} => lastOp.raised = "" /\ lastOp.result[2] = <<0, 1>>
            /\ Cardinality(iv) = Len(c.words) =>
                  lastOp.raised = "" /\ lastOp.result[3] = <<0, 1>>

\* the words of the sentences S of corpus c, in order
WordsOf(c, S) ==
    LET kept == {t \in 1..Len(c.words) : SentenceOf(c.lengths, t) \in S}
        nth(k) == CHOOSE t \in kept : Cardinality({u \in kept : u < t}) = k - 1
    IN  [k \in 1..Cardinality(kept) |-> c.words[nth(k)]]

\* the sentences fold i holds out
HeldOut(c, i) ==
    {s \in 1..Len(c.lengths) :
        /\ FoldOffset(Len(c.lengths), i) < s
        /\ s <= FoldOffset(Len(c.lengths), i) + FoldSize(Len(c.lengths), i)}

\* the callback of an invocation is bound to a list built in the same
\* operation, holding the lowercase forms of `words`, which are the words the
\* features of the invocation were built for
BoundTo(call, fn, words) ==
    /\ call.fn = fn
    /\ call.latent_features.bound
    /\ call.latent_features.fresh
    /\ call.latent_features.words = LowerAll(words)
    /\ Len(call.X) = Len(words)
    /\ SumSeq(call.lengths) = Len(words)
    /\ \A t \in 1..Len(words) : FeatValues(call.X[t], "W", "word") = {Lower(words[t])}

\* C10: whenever fit, predict or score is invoked, the installed callback is
\* bound to a newly built list of the lowercase forms of exactly the words
\* whose features and lengths are passed to that invocation: the words of
\* train, of the generator of tag (also when it is consumed after other
\* calls), of evaluate, and in a fold the training words for fit and then the
\* held-out words for score.
C10_CallbackBoundToInvocationWords ==
    /\ lastOp.name = "train" =>
          Len(calls) = 1 /\ BoundTo(calls[1], "fit", lastOp.args.words)
    /\ lastOp.name = "tag_next" =>
          Len(calls) = 1 /\ BoundTo(calls[1], "predict", lastOp.args.generator.c.words)
    /\ lastOp.name = "evaluate" =>
          Len(calls) = 1 /\ BoundTo(calls[1], "predict", lastOp.args.words)
    /\ lastOp.name = "_cross_val_iteration" /\ lastOp.raised = "" =>
          LET c == lastOp.args.c
              held == HeldOut(c, lastOp.args.i)
          IN  /\ Len(calls) = 2
              /\ BoundTo(calls[1], "fit", WordsOf(c, (1..Len(c.lengths)) \ held))
              /\ BoundTo(calls[2], "score", WordsOf(c, held))
    /\ lastOp.name \in {"tag", "__init__"} => calls = <<>>

\* a generator of tag was consumed after another operation had installed its
\* own callback: predict still ran with the generator's words
C10_Witness ==
    /\ lastOp.name = "tag_next"
    /\ lastOp.args.generator.c = CorpusA
    /\ lastOp.args.installed # lastOp.args.generator.created
    /\ lastOp.args.installed.bound
    /\ lastOp.args.installed.words = LowerAll(CorpusB.words)
    /\ calls[1].latent_features.words = LowerAll(CorpusA.words)

---------------------------------------------------------------------------
(* Properties of save, load and the vocabulary (SpecPersist) *)

\* C3: from every model state reached by construction and train calls (none
\* included: an empty weight table), save completes without error, and a load
\* of the saved file completes without error and leaves every persisted
\* attribute and every feature's weight vector as it was before the save.
C3_SaveLoadRoundTrip ==
    /\ lastOp.name = "save" => lastOp.raised = ""
    /\ lastOp.name = "load" /\ file.written =>
          lastOp.raised = "" /\ Persisted(tagger) = file.saved

\* C7 as stated: the vocabulary only grows; it changes only in train, which
\* adds exactly the words passed to it; after a load no operation modifies it.
C7_VocabularyOnlyGrows ==
    [][/\ tagger.vocabulary \subseteq tagger'.vocabulary
       /\ tagger'.vocabulary # tagger.vocabulary =>
             /\ lastOp'.name = "train"
             /\ tagger'.vocabulary = tagger.vocabulary \cup Range(lastOp'.args.words)
       /\ lastOp.name = "load" /\ lastOp.raised = "" =>
             tagger'.vocabulary = tagger.vocabulary]_vars

\* C7, amended: the vocabulary changes only in train, which adds exactly the
\* words passed to it, and in a load that succeeds, which replaces it by the
\* vocabulary that was saved; every other operation leaves it as it is.
C7_VocabularyChangesInTrainAndLoad ==
    [][IF lastOp'.name = "train"
       THEN tagger'.vocabulary = tagger.vocabulary \cup Range(lastOp'.args.words)
       ELSE IF lastOp'.name = "load" /\ lastOp'.raised = ""
       THEN tagger'.vocabulary = file.saved.vocabulary
       ELSE tagger'.vocabulary = tagger.vocabulary]_vars

\* a load replaced a vocabulary by a saved one that lacks some of its words
C7_Witness ==
    /\ lastOp.name = "load"
    /\ lastOp.raised = ""
    /\ tagger.vocabulary = file.saved.vocabulary
    /\ ~(lastOp.args.vocabulary \subseteq tagger.vocabulary)

---------------------------------------------------------------------------
(* Properties of crossvalidate (SpecCV) *)

\* C4: the model state (weight table, tag mapping) on which a fold's fit
\* starts is that of a fresh instance: it depends neither on training done
\* before crossvalidate nor on a fold the same worker ran earlier.
C4_FoldsStartFresh ==
    pool.state # "idle" =>
        \A i \in 0..NumFolds - 1 :
            pool.fitStart[i].started => pool.fitStart[i].model = ModelState(FreshTagger)

\* the sum of the numerators of the accuracies of all folds
AccuracySum(p) == SumSeq([k \in 1..NumFolds |-> p.results[k - 1].accuracy[1]])

\* C5: crossvalidate returns its statistics only when all 10 folds have
\* delivered an accuracy, and then the mean is taken over all 10; once a fold
\* has failed the call returns no statistics: it is blocked in map or has
\* raised the fold's exception.
C5_ReportsOnlyAfterAllFolds ==
    pool.state # "idle" =>
        /\ pool.state = "returned" =>
              /\ \A i \in 0..NumFolds - 1 : pool.results[i].done
              /\ pool.failed = {}
              /\ lastOp.name = "crossvalidate" /\ lastOp.raised = ""
              /\ lastOp.result.mean = <<AccuracySum(pool), NumFolds>>
        /\ pool.failed # {} =>
              /\ pool.state \in {"running", "raised"}
              /\ lastOp.result = <<>>
        /\ pool.state = "raised" =>
              /\ pool.failed # {}
              /\ lastOp.name = "crossvalidate" /\ lastOp.raised = "IndexError"
        /\ Len(pool.corpus.lengths) < NumFolds => pool.state # "returned"

\* with 9 sentences fold 9 holds out nothing and fails; crossvalidate raised
\* although other folds had delivered their accuracies
C5_Witness ==
    /\ pool.state = "raised"
    /\ Len(pool.corpus.lengths) = NumFolds - 1
    /\ pool.failed = {NumFolds - 1}
    /\ \E i \in 0..NumFolds - 1 : pool.results[i].done

===========================================================================
